---- MODULE Spec2Model ----
(***************************************************************************)
(* Model of src/src/utils/performance-testing.ts (class                    *)
(* PerformanceTesting): the score calculator, the recommendation           *)
(* generator, the load orchestrator (loadTest) and the network condition   *)
(* controller (testWithThrottling).                                        *)
(*                                                                         *)
(* Numbers.  Times and counts are integers (milliseconds, entries).  A     *)
(* JavaScript division a / b is kept exact as the reduced fraction         *)
(* [num, den]; den = 0 stands for the non-finite results (NaN, Infinity).  *)
(* An optional field of a JavaScript object is a key that is or is not in  *)
(* the DOMAIN of the function modelling the object.                        *)
(***************************************************************************)
EXTENDS Integers, Sequences, FiniteSets, TLC

VARIABLES
    sc_pc,          \* score calculator run: "input" | "scored"
    sc_metrics,     \* the PerformanceMetrics handed to calculatePerformanceScores
    sc_scores,      \* the PerformanceScores it returned
    sc_recs,        \* the recommendations generateRecommendations returned
    lt_pc,          \* loadTest: "loop" | "await" | "delay" | "done" | "thrown"
    options,        \* LoadTestOptions of the run
    batch,          \* loop variable of loadTest
    slots,          \* the promises of the current batch, by slot index
    results,        \* PerformanceAnalysis[] of loadTest
    errors,         \* string[] of loadTest
    lt_return,      \* the LoadTestResults returned
    launched,       \* history: analyses issued so far
    succeeded,      \* history: analyses that resolved
    failed,         \* history: analyses that threw
    pauses,         \* history: waitForTimeout calls between batches
    failedSlots,    \* history: the (batch, slot) of each throw, in the order thrown
    tw_pc,          \* testWithThrottling: position of the call
    network,        \* the session's emulated network conditions
    tw_conditions,  \* the conditions argument
    tw_metrics,     \* metrics captured by the analysis pass
    tw_return,      \* the record returned to the caller
    tw_error,       \* the message of the error thrown to the caller
    tw_calls,       \* history: calls of testWithThrottling so far
    tw_applied,     \* history: the call has applied its conditions
    tw_before,      \* history: the session's conditions before the call
    tw_failedAt,    \* history: the await of the call that rejected
    an_pc,          \* analyzePagePerformance: position of the call
    cap_promise,    \* the promise page.evaluate waits for
    cap_observer,   \* the PerformanceObserver: "none" | "observing" | "disconnected"
    cap_timer,      \* the fallback timeout: "none" | "armed" | "fired"
    cap_deliveries, \* history: observer callbacks so far
    an_return,      \* the PerformanceAnalysis returned
    an_error,       \* the message of the error thrown to the caller
    an_rejected,    \* history: the await that rejected, and its message
    an_ran,         \* history: the steps after the idle wait that have run
    an_network,     \* history: the conditions in force at goto and at the capture
    mb_pc,          \* testMobilePerformance: position of the call
    viewport,       \* the page's viewport size
    userAgent,      \* the page's user agent
    mb_touch,       \* the TouchTargetAnalysis gathered
    mb_return,      \* the MobilePerformanceResults returned
    mb_error        \* the message of the error thrown to the caller

scoreVars == <<sc_pc, sc_metrics, sc_scores, sc_recs>>
loadVars == <<lt_pc, options, batch, slots, results, errors, lt_return,
              launched, succeeded, failed, pauses, failedSlots>>
throttleVars == <<tw_pc, network, tw_conditions, tw_metrics, tw_return,
                  tw_error, tw_calls, tw_applied, tw_before, tw_failedAt>>
analyzeVars == <<an_pc, cap_promise, cap_observer, cap_timer, cap_deliveries,
                 an_return, an_error, an_rejected, an_ran, an_network>>
mobileVars == <<mb_pc, viewport, userAgent, mb_touch, mb_return, mb_error>>
vars == <<scoreVars, loadVars, throttleVars, analyzeVars, mobileVars>>

Undefined == "undefined"
\* JavaScript's null, told from every object by its one field
Null == [null |-> TRUE]
IsNull(r) == "null" \in DOMAIN r
\* the value of a variable that will hold an object and holds none yet
Unset == [unset |-> TRUE]

(***************************************************************************)
(* Bounds of the model.                                                    *)
(***************************************************************************)
\* sample times and counts lie within Near of 0 and of every threshold
Near == 1
\* concurrent * iterations of a modelled load test is at most MaxRequests
MaxRequests == 4
\* an observer delivery holds at most MaxEntries timing entries
MaxEntries == 2
\* testWithThrottling is called at most MaxCalls times on a session
MaxCalls == 2
\* the observer callback runs at most MaxDeliveries times during one capture
MaxDeliveries == 2

(***************************************************************************)
(* Arithmetic helpers.                                                     *)
(***************************************************************************)
Abs(x) == IF x < 0 THEN -x ELSE x

RECURSIVE GCD(_, _)
GCD(a, b) == IF b = 0 THEN a ELSE GCD(b, a % b)

\* JavaScript a / b for an integer a and an integer b >= 0, exact
Quot(a, b) ==
    IF b = 0
    THEN [num |-> IF a > 0 THEN 1 ELSE IF a < 0 THEN -1 ELSE 0, den |-> 0]
    ELSE LET g == GCD(Abs(a), b)
         IN  [num |-> a \div g, den |-> b \div g]

Num(n) == [num |-> n, den |-> 1]
IsFinite(q) == q.den # 0
\* q <= n, q >= n, q = a / b for finite q
QLe(q, n) == IsFinite(q) /\ q.num <= n * q.den
QGe(q, n) == IsFinite(q) /\ q.num >= n * q.den
QEq(q, a, b) == IsFinite(q) /\ b # 0 /\ q.num * b = a * q.den

RECURSIVE SumSeq(_)
SumSeq(s) == IF s = <<>> THEN 0 ELSE Head(s) + SumSeq(Tail(s))

\* an optional numeric field: present, and truthy (present and not 0)
Has(obj, key) == key \in DOMAIN obj
Truthy(obj, key) == Has(obj, key) /\ obj[key] # 0

(***************************************************************************)
(* calculatePerformanceScores.                                             *)
(***************************************************************************)
\* an FCP score that is full when no FCP was observed
fcpScoreAbsentFull(webVitals) ==
    IF Truthy(webVitals, "firstContentfulPaint")
    THEN IF webVitals["firstContentfulPaint"] <= 1800 THEN 100
         ELSE IF webVitals["firstContentfulPaint"] <= 3000 THEN 75
         ELSE IF webVitals["firstContentfulPaint"] <= 4200 THEN 50
         ELSE 25
    ELSE 100

fcpScore(webVitals) ==
    IF Truthy(webVitals, "firstContentfulPaint")
    THEN IF webVitals["firstContentfulPaint"] <= 1800 THEN 100
         ELSE IF webVitals["firstContentfulPaint"] <= 3000 THEN 75
         ELSE IF webVitals["firstContentfulPaint"] <= 4200 THEN 50
         ELSE 25
    ELSE 0

lcpScore(webVitals) ==
    IF Truthy(webVitals, "largestContentfulPaint")
    THEN IF webVitals["largestContentfulPaint"] <= 2500 THEN 100
         ELSE IF webVitals["largestContentfulPaint"] <= 4000 THEN 75
         ELSE 25
    ELSE 0

loadTimeScore(webVitals) ==
    IF Truthy(webVitals, "loadComplete")
    THEN IF webVitals["loadComplete"] <= 2000 THEN 100
         ELSE IF webVitals["loadComplete"] <= 4000 THEN 75
         ELSE IF webVitals["loadComplete"] <= 6000 THEN 50
         ELSE 25
    ELSE 0

resourceEfficiencyExclusive(totalResources) ==
    IF totalResources < 50 THEN 100
    ELSE IF totalResources < 100 THEN 75
    ELSE IF totalResources < 150 THEN 50
    ELSE 25

resourceEfficiencyScore(totalResources) ==
    IF totalResources <= 50 THEN 100
    ELSE IF totalResources <= 100 THEN 75
    ELSE IF totalResources <= 150 THEN 50
    ELSE 25

\* Object.values(scores).filter(s => s > 0), then the mean or 0
overallScore(fcp, lcp, load, eff) ==
    LET values == <<0, fcp, lcp, load, eff>>
        validScores == SelectSeq(values, LAMBDA s : s > 0)
    IN  IF Len(validScores) > 0
        THEN Quot(SumSeq(validScores), Len(validScores))
        ELSE Num(0)

calculatePerformanceScores(metrics) ==
    LET fcp == fcpScore(metrics.webVitals)
        lcp == lcpScore(metrics.webVitals)
        load == loadTimeScore(metrics.webVitals)
        eff == resourceEfficiencyScore(metrics.resources.totalResources)
    IN  [overall |-> overallScore(fcp, lcp, load, eff),
         firstContentfulPaint |-> fcp,
         largestContentfulPaint |-> lcp,
         loadTime |-> load,
         resourceEfficiency |-> eff]

(***************************************************************************)
(* generateRecommendations.                                                *)
(***************************************************************************)
RecFCP == "Optimize First Contentful Paint by reducing render-blocking resources"
RecLCP == "Improve Largest Contentful Paint by optimizing main content loading"
RecCount(n) == "Reduce number of resources (currently " \o ToString(n) \o ")"
RecSize == "Optimize resource sizes - total transfer size is high"
RecTTFB == "Improve server response time (TTFB)"

\* recommendations whose size test also fires at exactly 2 MiB
generateRecommendationsInclusive(metrics, scores) ==
    (IF scores.firstContentfulPaint < 75 THEN <<RecFCP>> ELSE <<>>)
    \o (IF scores.largestContentfulPaint < 75 THEN <<RecLCP>> ELSE <<>>)
    \o (IF metrics.resources.totalResources > 100
        THEN <<RecCount(metrics.resources.totalResources)>> ELSE <<>>)
    \o (IF metrics.resources.totalSize >= 2 * 1024 * 1024
        THEN <<RecSize>> ELSE <<>>)
    \o (IF Has(metrics.webVitals, "firstByte")
           /\ metrics.webVitals["firstByte"] > 600
        THEN <<RecTTFB>> ELSE <<>>)

\* undefined > 600 is false
generateRecommendations(metrics, scores) ==
    (IF scores.firstContentfulPaint < 75 THEN <<RecFCP>> ELSE <<>>)
    \o (IF scores.largestContentfulPaint < 75 THEN <<RecLCP>> ELSE <<>>)
    \o (IF metrics.resources.totalResources > 100
        THEN <<RecCount(metrics.resources.totalResources)>> ELSE <<>>)
    \o (IF metrics.resources.totalSize > 2 * 1024 * 1024
        THEN <<RecSize>> ELSE <<>>)
    \o (IF Has(metrics.webVitals, "firstByte")
           /\ metrics.webVitals["firstByte"] > 600
        THEN <<RecTTFB>> ELSE <<>>)

\* the record analyzePagePerformance returns for captured metrics
\* (the timestamp, a wall-clock reading, is left out)
AnalysisOf(url, metrics) ==
    LET scores == calculatePerformanceScores(metrics)
    IN  [url |-> url,
         metrics |-> metrics,
         scores |-> scores,
         recommendations |-> generateRecommendations(metrics, scores)]

(***************************************************************************)
(* Inputs of the score calculator: every combination of an absent or       *)
(* sampled FCP, LCP and load-complete time with a sampled resource count.  *)
(***************************************************************************)
Around(thresholds) ==
    (0 .. Near) \cup UNION {(t - Near) .. (t + Near) : t \in thresholds}

FcpTimes == Around({1800, 3000, 4200})
LcpTimes == Around({2500, 4000})
LoadTimes == Around({2000, 4000, 6000})
ResourceCounts == Around({50, 100, 150})

\* no entry, or the one entry key |-> v
Optional(key, values) == {<<>>} \cup {key :> v : v \in values}

VitalsSamples ==
    {f @@ l @@ c : f \in Optional("firstContentfulPaint", FcpTimes),
                   l \in Optional("largestContentfulPaint", LcpTimes),
                   c \in Optional("loadComplete", LoadTimes)}

ResourcesOf(count, size) ==
    [totalResources |-> count,
     totalSize |-> size,
     slowestResource |-> [name |-> "", duration |-> 0],
     resourceTypes |-> <<>>]

MetricsSamples ==
    {[webVitals |-> w, resources |-> ResourcesOf(n, 0), memory |-> Null] :
        w \in VitalsSamples, n \in ResourceCounts}

\* the snapshot the fallback timeout resolves with
FallbackMetrics ==
    [webVitals |-> <<>>, resources |-> ResourcesOf(0, 0), memory |-> Null]

ScoreParked ==
    /\ sc_pc = "off"
    /\ sc_metrics = Undefined
    /\ sc_scores = Undefined
    /\ sc_recs = Undefined

LoadParked ==
    /\ lt_pc = "off"
    /\ options = Undefined
    /\ batch = 0
    /\ slots = <<>>
    /\ results = <<>>
    /\ errors = <<>>
    /\ lt_return = Unset
    /\ launched = 0
    /\ succeeded = 0
    /\ failed = 0
    /\ pauses = 0
    /\ failedSlots = <<>>

ThrottleParked ==
    /\ tw_pc = "off"
    /\ network = Undefined
    /\ tw_conditions = Undefined
    /\ tw_metrics = Unset
    /\ tw_return = Unset
    /\ tw_error = Undefined
    /\ tw_calls = 0
    /\ tw_applied = FALSE
    /\ tw_before = Undefined
    /\ tw_failedAt = "none"

AnalyzeParked ==
    /\ an_pc = "off"
    /\ cap_promise = [state |-> "pending"]
    /\ cap_observer = "none"
    /\ cap_timer = "none"
    /\ cap_deliveries = 0
    /\ an_return = Unset
    /\ an_error = Undefined
    /\ an_rejected = [at |-> "none", message |-> "none"]
    /\ an_ran = {}
    /\ an_network = <<>>

MobileParked ==
    /\ mb_pc = "off"
    /\ viewport = Unset
    /\ userAgent = Undefined
    /\ mb_touch = Unset
    /\ mb_return = Unset
    /\ mb_error = Undefined

InitScore ==
    /\ sc_pc = "input"
    /\ sc_metrics \in MetricsSamples
    /\ sc_scores = Undefined
    /\ sc_recs = Undefined
    /\ LoadParked
    /\ ThrottleParked
    /\ AnalyzeParked
    /\ MobileParked

\* lines 105-112 of analyzePagePerformance: score, then recommend
CalculateScores ==
    /\ sc_pc = "input"
    /\ sc_scores' = calculatePerformanceScores(sc_metrics)
    /\ sc_pc' = "scored"
    /\ UNCHANGED <<sc_metrics, sc_recs, loadVars, throttleVars, analyzeVars, mobileVars>>

GenerateRecommendations ==
    /\ sc_pc = "scored"
    /\ sc_recs' = generateRecommendations(sc_metrics, sc_scores)
    /\ sc_pc' = "returned"
    /\ UNCHANGED <<sc_metrics, sc_scores, loadVars, throttleVars, analyzeVars, mobileVars>>

NextScore == CalculateScores \/ GenerateRecommendations

SpecScore == InitScore /\ [][NextScore]_vars

\* Inputs around the thresholds of generateRecommendations: FCP and LCP
\* about the times where their scores fall below 75, the resource count
\* about 100, the transfer size about 2 MiB, the TTFB about 600 ms.
RecommendSamples ==
    {[webVitals |-> f @@ l @@ b,
      resources |-> ResourcesOf(n, size),
      memory |-> Null] :
        f \in Optional("firstContentfulPaint", Around({3000})),
        l \in Optional("largestContentfulPaint", Around({4000})),
        b \in Optional("firstByte", Around({600})),
        n \in Around({100}),
        size \in Around({2 * 1024 * 1024})}

InitRecommend ==
    /\ sc_pc = "input"
    /\ sc_metrics \in RecommendSamples
    /\ sc_scores = Undefined
    /\ sc_recs = Undefined
    /\ LoadParked
    /\ ThrottleParked
    /\ AnalyzeParked
    /\ MobileParked

SpecRecommend == InitRecommend /\ [][NextScore]_vars

(***************************************************************************)
(* loadTest and analyzeLoadTestResults.                                    *)
(***************************************************************************)
Url == "https://playwright.dev"

\* r.metrics.webVitals.loadComplete || 0
loadCompleteOrZero(r) ==
    IF Truthy(r.metrics.webVitals, "loadComplete")
    THEN r.metrics.webVitals["loadComplete"]
    ELSE 0

RECURSIVE MapLoadComplete(_)
MapLoadComplete(rs) ==
    IF rs = <<>> THEN <<>>
    ELSE <<loadCompleteOrZero(Head(rs))>> \o MapLoadComplete(Tail(rs))

\* a minimum taken over the non-zero times only
MinSeqSkipsZero(s) ==
    LET positive == SelectSeq(s, LAMBDA x : x > 0)
        least[k \in 1 .. Len(positive)] ==
            IF k = 1 THEN positive[1]
            ELSE IF positive[k] < least[k - 1] THEN positive[k]
                 ELSE least[k - 1]
    IN  IF positive = <<>> THEN 0 ELSE least[Len(positive)]

RECURSIVE MinSeq(_)
MinSeq(s) ==
    IF Len(s) = 1 THEN Head(s)
    ELSE LET m == MinSeq(Tail(s)) IN IF Head(s) < m THEN Head(s) ELSE m

RECURSIVE MaxSeq(_)
MaxSeq(s) ==
    IF Len(s) = 1 THEN Head(s)
    ELSE LET m == MaxSeq(Tail(s)) IN IF Head(s) > m THEN Head(s) ELSE m

RecScaling == "High average response time under load - consider server scaling"
RecStability == "High error rate - check server stability and capacity"
RecIterations ==
    "Consider running more iterations for better statistical significance"
RecAllFailed == "All requests failed - check server capacity and configuration"

\* errors.length > results.length * 0.1 is compared exactly, as
\* 10 * errors.length > results.length
generateLoadTestRecommendations(rs, errs) ==
    LET avgLoad == Quot(SumSeq(MapLoadComplete(rs)), Len(rs))
    IN  (IF IsFinite(avgLoad) /\ avgLoad.num > 5000 * avgLoad.den
         THEN <<RecScaling>> ELSE <<>>)
        \o (IF 10 * Len(errs) > Len(rs) THEN <<RecStability>> ELSE <<>>)
        \o (IF Len(rs) < 10 THEN <<RecIterations>> ELSE <<>>)

\* a summary whose successRate is left as a fraction of one
summaryOfFraction(rs, validResults, errs) ==
    LET responseTimes == MapLoadComplete(validResults)
    IN  [totalRequests |-> Len(rs),
         successfulRequests |-> Len(validResults),
         failedRequests |-> Len(errs),
         successRate |-> Quot(Len(validResults), Len(rs)),
         averageResponseTime |->
             Quot(SumSeq(responseTimes), Len(responseTimes)),
         minResponseTime |-> MinSeq(responseTimes),
         maxResponseTime |-> MaxSeq(responseTimes)]

\* the summary of the branch taken when validResults is not empty
summaryOf(rs, validResults, errs) ==
    LET responseTimes == MapLoadComplete(validResults)
    IN  [totalRequests |-> Len(rs),
         successfulRequests |-> Len(validResults),
         failedRequests |-> Len(errs),
         successRate |-> Quot(Len(validResults) * 100, Len(rs)),
         averageResponseTime |->
             Quot(SumSeq(responseTimes), Len(responseTimes)),
         minResponseTime |-> MinSeq(responseTimes),
         maxResponseTime |-> MaxSeq(responseTimes)]

\* analyzeLoadTestResults without the early return for no valid result
analyzeLoadTestResultsNoGuard(rs, errs) ==
    LET validResults == SelectSeq(rs, LAMBDA r : ~IsNull(r))
    IN  [summary |->
             [totalRequests |-> Len(rs),
              successfulRequests |-> Len(validResults),
              failedRequests |-> Len(errs),
              successRate |-> Quot(Len(validResults) * 100, Len(rs)),
              averageResponseTime |->
                  Quot(SumSeq(MapLoadComplete(validResults)),
                       Len(validResults)),
              minResponseTime |-> 0,
              maxResponseTime |-> 0],
         errors |-> errs,
         recommendations |-> generateLoadTestRecommendations(validResults, errs)]

analyzeLoadTestResults(rs, errs) ==
    LET validResults == SelectSeq(rs, LAMBDA r : ~IsNull(r))
    IN  IF Len(validResults) = 0
        THEN [summary |->
                  [totalRequests |-> Len(rs),
                   successfulRequests |-> 0,
                   failedRequests |-> Len(errs),
                   successRate |-> Num(0),
                   averageResponseTime |-> Num(0),
                   minResponseTime |-> 0,
                   maxResponseTime |-> 0],
              errors |-> errs,
              recommendations |-> <<RecAllFailed>>]
        ELSE [summary |-> summaryOf(rs, validResults, errs),
              errors |-> errs,
              recommendations |->
                  generateLoadTestRecommendations(validResults, errs)]

\* an entry with the batch and the slot index exchanged
ErrorEntrySwapped(b, i, message) ==
    "Batch " \o ToString(i) \o ", User " \o ToString(b) \o ": " \o message

\* `Batch ${batch}, User ${i}: ${error.message}`
ErrorEntry(b, i, message) ==
    "Batch " \o ToString(b) \o ", User " \o ToString(i) \o ": " \o message

\* a handler that records the error and settles the slot with a fallback
\* analysis in place of null
catchHandlerReturnsAnalysis(errs, b, i, message) ==
    [errors |-> Append(errs, ErrorEntry(b, i, message)),
     slot |-> [state |-> "fulfilled",
               value |-> AnalysisOf(Url, FallbackMetrics)]]

\* a handler that puts the entry at the front of the list (unshift)
catchHandlerPrepends(errs, b, i, message) ==
    [errors |-> <<ErrorEntry(b, i, message)>> \o errs,
     slot |-> [state |-> "fulfilled", value |-> Null]]

\* a handler that records the error and lets it escape
catchHandlerRethrows(errs, b, i, message) ==
    [errors |-> Append(errs, ErrorEntry(b, i, message)),
     slot |-> [state |-> "rejected"]]

\* the .catch handler of a slot: the entry it pushes and the promise it
\* settles (fulfilled with null)
catchHandler(errs, b, i, message) ==
    [errors |-> Append(errs, ErrorEntry(b, i, message)),
     slot |-> [state |-> "fulfilled", value |-> Null]]

\* batchResults of Promise.all: the slots' values in slot order
RECURSIVE BatchResults(_, _, _)
BatchResults(ss, i, n) ==
    IF i >= n THEN <<>>
    ELSE <<ss[i].value>> \o BatchResults(ss, i + 1, n)

\* what the slots of a load test may do: throw one of these messages, or
\* resolve with the analysis of one of these snapshots
ErrorMessages == {"net::ERR_CONNECTION_REFUSED", "Timeout 30000ms exceeded"}
SlotMetrics ==
    {FallbackMetrics}
    \cup {[webVitals |-> "loadComplete" :> t,
           resources |-> ResourcesOf(1, 0),
           memory |-> Null] : t \in {1000, 6000}}

OptionsSamples ==
    {[concurrent |-> c, iterations |-> n] @@ d :
        c \in 0 .. MaxRequests, n \in 0 .. MaxRequests,
        d \in Optional("delayBetweenBatches", {1000})}

InitLoad ==
    /\ lt_pc = "loop"
    /\ options \in {o \in OptionsSamples :
                        o["concurrent"] * o["iterations"] <= MaxRequests}
    /\ batch = 0
    /\ slots = <<>>
    /\ results = <<>>
    /\ errors = <<>>
    /\ lt_return = Unset
    /\ launched = 0
    /\ succeeded = 0
    /\ failed = 0
    /\ pauses = 0
    /\ failedSlots = <<>>
    /\ ScoreParked
    /\ ThrottleParked
    /\ AnalyzeParked
    /\ MobileParked

\* an inner loop running while i <= options.concurrent: one slot too many
LaunchBatchInclusive ==
    /\ lt_pc = "loop"
    /\ batch < options["iterations"]
    /\ slots' = [i \in 0 .. options["concurrent"] |-> [state |-> "pending"]]
    /\ launched' = launched + options["concurrent"] + 1
    /\ lt_pc' = "await"
    /\ UNCHANGED <<failedSlots, options, batch, results, errors, lt_return, succeeded,
                   failed, pauses, scoreVars, throttleVars, analyzeVars, mobileVars>>

\* lines 163-173: the loop test passed; every slot of the batch is issued
LaunchBatch ==
    /\ lt_pc = "loop"
    /\ batch < options["iterations"]
    /\ slots' = [i \in 0 .. options["concurrent"] - 1 |-> [state |-> "pending"]]
    /\ launched' = launched + options["concurrent"]
    /\ lt_pc' = "await"
    /\ UNCHANGED <<failedSlots, options, batch, results, errors, lt_return, succeeded,
                   failed, pauses, scoreVars, throttleVars,
                   analyzeVars, mobileVars>>

\* a slot's analyzePagePerformance resolves
SlotResolves(i, metrics) ==
    /\ lt_pc = "await"
    /\ slots[i].state = "pending"
    /\ slots' = [slots EXCEPT ![i] =
                    [state |-> "fulfilled", value |-> AnalysisOf(Url, metrics)]]
    /\ succeeded' = succeeded + 1
    /\ UNCHANGED <<lt_pc, failedSlots, options, batch, results, errors, lt_return,
                   launched, failed, pauses, scoreVars, throttleVars,
                   analyzeVars, mobileVars>>

\* a slot's analyzePagePerformance throws: lines 168-171
SlotThrows(i, message) ==
    /\ lt_pc = "await"
    /\ slots[i].state = "pending"
    /\ LET caught == catchHandler(errors, batch, i, message)
       IN  /\ errors' = caught.errors
           /\ slots' = [slots EXCEPT ![i] = caught.slot]
    /\ failed' = failed + 1
    /\ failedSlots' = Append(failedSlots, [batch |-> batch, slot |-> i])
    /\ UNCHANGED <<lt_pc, options, batch, results, lt_return, launched,
                   succeeded, pauses, scoreVars, throttleVars,
                   analyzeVars, mobileVars>>

\* a loop that waits after every batch, the final one included
waitsAfterEveryBatch(b, opts) == Truthy(opts, "delayBetweenBatches")

\* line 179: batch < options.iterations - 1 && options.delayBetweenBatches
waitsBetweenBatches(b, opts) ==
    b < opts["iterations"] - 1 /\ Truthy(opts, "delayBetweenBatches")

\* a Promise.race in place of Promise.all: the batch is over with the first
\* slot that settles
BatchSettlesOnFirst ==
    /\ lt_pc = "await"
    /\ \/ DOMAIN slots = {}
       \/ \E i \in DOMAIN slots : slots[i].state = "fulfilled"
    /\ results' = results \o
           SelectSeq([k \in 1 .. options["concurrent"] |->
                          IF slots[k - 1].state = "fulfilled"
                          THEN slots[k - 1].value ELSE Null],
                     LAMBDA r : ~IsNull(r))
    /\ IF waitsBetweenBatches(batch, options)
       THEN /\ lt_pc' = "delay"
            /\ pauses' = pauses + 1
            /\ UNCHANGED batch
       ELSE /\ lt_pc' = "loop"
            /\ batch' = batch + 1
            /\ UNCHANGED pauses
    /\ UNCHANGED <<failedSlots, options, slots, errors, lt_return, launched, succeeded,
                   failed, scoreVars, throttleVars, analyzeVars, mobileVars>>

\* lines 175-181: Promise.all settles (it rejects with the first rejected
\* slot, and resolves once every slot is fulfilled); the results are pushed
\* and the delay is started or skipped
BatchSettles ==
    /\ lt_pc = "await"
    /\ \/ \E i \in DOMAIN slots : slots[i].state = "rejected"
       \/ \A i \in DOMAIN slots : slots[i].state = "fulfilled"
    /\ IF \E i \in DOMAIN slots : slots[i].state = "rejected"
       THEN /\ lt_pc' = "thrown"
            /\ UNCHANGED <<batch, results, pauses>>
       ELSE /\ results' = results \o
                SelectSeq(BatchResults(slots, 0, options["concurrent"]),
                          LAMBDA r : ~IsNull(r))
            /\ IF waitsBetweenBatches(batch, options)
               THEN /\ lt_pc' = "delay"
                    /\ pauses' = pauses + 1
                    /\ UNCHANGED batch
               ELSE /\ lt_pc' = "loop"
                    /\ batch' = batch + 1
                    /\ UNCHANGED pauses
    /\ UNCHANGED <<failedSlots, options, slots, errors, lt_return, launched, succeeded,
                   failed, scoreVars, throttleVars,
                   analyzeVars, mobileVars>>

\* line 180: waitForTimeout elapses
DelayElapses ==
    /\ lt_pc = "delay"
    /\ lt_pc' = "loop"
    /\ batch' = batch + 1
    /\ UNCHANGED <<failedSlots, options, slots, results, errors, lt_return, launched,
                   succeeded, failed, pauses, scoreVars, throttleVars,
                   analyzeVars, mobileVars>>

\* line 184: the loop is over
ReturnResults ==
    /\ lt_pc = "loop"
    /\ ~(batch < options["iterations"])
    /\ lt_return' = analyzeLoadTestResults(results, errors)
    /\ lt_pc' = "done"
    /\ UNCHANGED <<failedSlots, options, batch, slots, results, errors, launched,
                   succeeded, failed, pauses, scoreVars, throttleVars,
                   analyzeVars, mobileVars>>

NextLoad ==
    \/ LaunchBatch
    \/ \E i \in DOMAIN slots, m \in SlotMetrics : SlotResolves(i, m)
    \/ \E i \in DOMAIN slots, e \in ErrorMessages : SlotThrows(i, e)
    \/ BatchSettles
    \/ DelayElapses
    \/ ReturnResults

SpecLoad == InitLoad /\ [][NextLoad]_vars

\* The end of a one-batch load test of up to MaxTally slots, of which the
\* first m threw and the others resolved with the same snapshot: the state
\* loadTest is in when its loop is over, before line 184.
MaxTally == 20

InitTally ==
    \E k \in 0 .. MaxTally, metrics \in SlotMetrics, message \in ErrorMessages :
      \E m \in 0 .. MaxTally - k :
        /\ lt_pc = "loop"
        /\ options = [concurrent |-> k + m, iterations |-> 1]
        /\ batch = 1
        /\ slots = [i \in 0 .. k + m - 1 |->
                       [state |-> "fulfilled",
                        value |-> IF i < m THEN Null
                                  ELSE AnalysisOf(Url, metrics)]]
        /\ results = [j \in 1 .. k |-> AnalysisOf(Url, metrics)]
        /\ errors = [j \in 1 .. m |-> ErrorEntry(0, j - 1, message)]
        /\ lt_return = Unset
        /\ launched = k + m
        /\ succeeded = k
        /\ failed = m
        /\ pauses = 0
        /\ failedSlots = [j \in 1 .. m |-> [batch |-> 0, slot |-> j - 1]]
        /\ ScoreParked
        /\ ThrottleParked
        /\ AnalyzeParked
        /\ MobileParked

NextTally == ReturnResults

SpecTally == InitTally /\ [][NextTally]_vars

(***************************************************************************)
(* The in-page capture of analyzePagePerformance.                          *)
(***************************************************************************)
\* lines 23-39: one entry of the delivered list folded into vitals
vitalsStep(vitals, entry) ==
    LET nav == IF entry.entryType = "navigation"
               THEN ("domContentLoaded" :>
                        entry.domContentLoadedEventEnd
                            - entry.domContentLoadedEventStart)
                    @@ ("loadComplete" :>
                            entry.loadEventEnd - entry.loadEventStart)
                    @@ ("firstByte" :> entry.responseStart - entry.requestStart)
                    @@ vitals
               ELSE vitals
        fcp == IF entry.name = "first-contentful-paint"
               THEN ("firstContentfulPaint" :> entry.startTime) @@ nav
               ELSE nav
    IN  IF entry.name = "largest-contentful-paint"
        THEN ("largestContentfulPaint" :> entry.startTime) @@ fcp
        ELSE fcp

RECURSIVE vitalsOf(_, _)
vitalsOf(vitals, entries) ==
    IF entries = <<>> THEN vitals
    ELSE vitalsOf(vitalsStep(vitals, Head(entries)), Tail(entries))

\* lines 50-68: one resource entry folded into resourceMetrics
resourceStep(rm, resource) ==
    LET duration == resource.responseEnd - resource.requestStart
        type == IF resource.initiatorType # "" THEN resource.initiatorType
                ELSE "other"
        seen == IF type \in DOMAIN rm.resourceTypes
                THEN rm.resourceTypes[type] ELSE 0
    IN  [totalResources |-> rm.totalResources,
         totalSize |-> IF resource.transferSize # 0
                       THEN rm.totalSize + resource.transferSize
                       ELSE rm.totalSize,
         slowestResource |-> IF duration > rm.slowestResource.duration
                             THEN [name |-> resource.name,
                                   duration |-> duration]
                             ELSE rm.slowestResource,
         resourceTypes |-> (type :> (seen + 1)) @@ rm.resourceTypes]

RECURSIVE resourceMetricsOf(_, _)
resourceMetricsOf(rm, resources) ==
    IF resources = <<>> THEN rm
    ELSE resourceMetricsOf(resourceStep(rm, Head(resources)), Tail(resources))

\* lines 19-80: the snapshot the observer callback resolves with
observerCallback(entries, resources, memory) ==
    [webVitals |-> vitalsOf(<<>>, entries),
     resources |-> resourceMetricsOf(ResourcesOf(Len(resources), 0), resources),
     memory |-> memory]

\* what the browser may deliver: timing entries, resource entries, memory
NavigationEntry(loadEventEnd) ==
    [entryType |-> "navigation", name |-> Url, startTime |-> 0,
     domContentLoadedEventStart |-> 700, domContentLoadedEventEnd |-> 720,
     loadEventStart |-> 1200, loadEventEnd |-> loadEventEnd,
     requestStart |-> 40, responseStart |-> 700]

PaintEntry(type, name, startTime) ==
    [entryType |-> type, name |-> name, startTime |-> startTime]

EntrySamples ==
    {NavigationEntry(1200), NavigationEntry(3700),
     PaintEntry("paint", "first-paint", 900),
     PaintEntry("paint", "first-contentful-paint", 3500),
     PaintEntry("largest-contentful-paint", "", 4100),
     PaintEntry("largest-contentful-paint", "largest-contentful-paint", 4100)}

RECURSIVE SeqsUpTo(_, _)
SeqsUpTo(S, n) ==
    IF n = 0 THEN {<<>>}
    ELSE LET shorter == SeqsUpTo(S, n - 1)
         IN  shorter \cup {Append(q, x) : q \in shorter, x \in S}

EntryLists == SeqsUpTo(EntrySamples, MaxEntries) \ {<<>>}

ResourceEntry(name, type, requestStart, responseEnd, transferSize) ==
    [name |-> name, initiatorType |-> type, requestStart |-> requestStart,
     responseEnd |-> responseEnd, transferSize |-> transferSize]

ResourceLists ==
    {<<>>,
     <<ResourceEntry("app.js", "script", 100, 400, 50000)>>,
     <<ResourceEntry("app.js", "script", 100, 400, 50000),
       ResourceEntry("beacon", "", 500, 1500, 0)>>}

MemorySamples ==
    {Null, [usedJSHeapSize |-> 10, totalJSHeapSize |-> 20,
            jsHeapSizeLimit |-> 40]}

(***************************************************************************)
(* testWithThrottling, with the analyzePagePerformance pass it awaits.     *)
(***************************************************************************)
\* lines 136-141: the conditions of the reset
Unconstrained ==
    [offline |-> FALSE, downloadThroughput |-> -1, uploadThroughput |-> -1,
     latency |-> 0]

\* lines 126-131: the conditions sent for the argument
Emulated(conditions) ==
    [offline |-> FALSE,
     downloadThroughput |-> conditions.downloadThroughput,
     uploadThroughput |-> conditions.uploadThroughput,
     latency |-> conditions.latency]

\* slow 3G (500 Kbps, 400 ms) and the mobile preset (1.5 Mbps, 750 Kbps, 150 ms)
ConditionsSamples ==
    {[downloadThroughput |-> (500 * 1024) \div 8,
      uploadThroughput |-> (500 * 1024) \div 8, latency |-> 400],
     [downloadThroughput |-> (3 * 512 * 1024) \div 8,
      uploadThroughput |-> (750 * 1024) \div 8, latency |-> 150]}

\* the positions at which the call awaits the browser
ThrottleAwaits ==
    {"newCDPSession", "enable", "emulate", "goto", "waitForLoadState",
     "evaluate", "reset"}

InitThrottle ==
    /\ tw_pc = "ready"
    /\ network = Unconstrained
    /\ tw_conditions = Undefined
    /\ tw_metrics = Unset
    /\ tw_return = Unset
    /\ tw_error = Undefined
    /\ tw_calls = 0
    /\ tw_applied = FALSE
    /\ tw_before = network
    /\ tw_failedAt = "none"
    /\ ScoreParked
    /\ LoadParked
    /\ AnalyzeParked
    /\ MobileParked

\* a test calls testWithThrottling(url, conditions)
CallThrottling(conditions) ==
    /\ tw_pc \in {"ready", "returned", "thrown"}
    /\ tw_calls < MaxCalls
    /\ tw_calls' = tw_calls + 1
    /\ tw_conditions' = conditions
    /\ tw_before' = network
    /\ tw_failedAt' = "none"
    /\ tw_applied' = FALSE
    /\ tw_metrics' = Unset
    /\ tw_return' = Unset
    /\ tw_error' = Undefined
    /\ tw_pc' = "newCDPSession"
    /\ UNCHANGED <<network, scoreVars, loadVars,
                   analyzeVars, mobileVars>>

\* a step of the call that changes nothing but its position
ThrottleGoes(from, to) ==
    /\ tw_pc = from
    /\ tw_pc' = to
    /\ UNCHANGED <<network, tw_conditions, tw_metrics, tw_return, tw_error,
                   tw_calls, tw_applied, tw_before, tw_failedAt,
                   scoreVars, loadVars, analyzeVars, mobileVars>>

\* line 124
NewCDPSession == ThrottleGoes("newCDPSession", "enable")
\* line 125
NetworkEnable == ThrottleGoes("enable", "emulate")

\* lines 126-131
ApplyConditions ==
    /\ tw_pc = "emulate"
    /\ network' = Emulated(tw_conditions)
    /\ tw_applied' = TRUE
    /\ tw_pc' = "goto"
    /\ UNCHANGED <<tw_conditions, tw_metrics, tw_return, tw_error, tw_calls,
                   tw_before, tw_failedAt,
                   scoreVars, loadVars, analyzeVars, mobileVars>>

\* line 10
Goto == ThrottleGoes("goto", "waitForLoadState")
\* line 13
WaitForLoadState == ThrottleGoes("waitForLoadState", "evaluate")

\* lines 19-80: the observer is called with a list of entries and resolves
CaptureObserved(entries, resources, memory) ==
    /\ tw_pc = "evaluate"
    /\ tw_metrics' = observerCallback(entries, resources, memory)
    /\ tw_pc' = "reset"
    /\ UNCHANGED <<network, tw_conditions, tw_return, tw_error, tw_calls,
                   tw_applied, tw_before, tw_failedAt,
                   scoreVars, loadVars, analyzeVars, mobileVars>>

\* lines 88-100: the fallback timeout resolves
CaptureTimedOut ==
    /\ tw_pc = "evaluate"
    /\ tw_metrics' = FallbackMetrics
    /\ tw_pc' = "reset"
    /\ UNCHANGED <<network, tw_conditions, tw_return, tw_error, tw_calls,
                   tw_applied, tw_before, tw_failedAt,
                   scoreVars, loadVars, analyzeVars, mobileVars>>

\* lines 105-113 and 136-146: the analysis is built, the conditions are
\* reset and the record is returned
ResetAndReturn ==
    /\ tw_pc = "reset"
    /\ network' = Unconstrained
    /\ tw_return' = ("networkConditions" :> tw_conditions)
                    @@ AnalysisOf(Url, tw_metrics)
    /\ tw_pc' = "returned"
    /\ UNCHANGED <<tw_conditions, tw_metrics, tw_error, tw_calls, tw_applied,
                   tw_before, tw_failedAt,
                   scoreVars, loadVars, analyzeVars, mobileVars>>

\* an awaited browser operation rejects: nothing in testWithThrottling or
\* analyzePagePerformance catches it, the call throws it
ThrottleThrows(message) ==
    /\ tw_pc \in ThrottleAwaits
    /\ tw_error' = message
    /\ tw_failedAt' = tw_pc
    /\ tw_pc' = "thrown"
    /\ UNCHANGED <<network, tw_conditions, tw_metrics, tw_return, tw_calls,
                   tw_applied, tw_before, scoreVars, loadVars, analyzeVars, mobileVars>>

NextThrottle ==
    \/ \E c \in ConditionsSamples : CallThrottling(c)
    \/ NewCDPSession
    \/ NetworkEnable
    \/ ApplyConditions
    \/ Goto
    \/ WaitForLoadState
    \/ \E es \in EntryLists, rs \in ResourceLists, mem \in MemorySamples :
           CaptureObserved(es, rs, mem)
    \/ CaptureTimedOut
    \/ ResetAndReturn
    \/ \E e \in ErrorMessages : ThrottleThrows(e)

SpecThrottle == InitThrottle /\ [][NextThrottle]_vars

(***************************************************************************)
(* analyzePagePerformance called on its own, with the in-page capture: the *)
(* observer, the fallback timeout and the promise they both resolve.       *)
(***************************************************************************)
\* a second resolve overwrites the value of the promise
\* a promise that takes the value of every call of resolve
resolveOverwrites(promise, value) == [state |-> "fulfilled", value |-> value]

\* line 17: resolve of the promise; only the first call settles it
resolve(promise, value) ==
    IF promise.state = "pending"
    THEN [state |-> "fulfilled", value |-> value]
    ELSE promise

\* the rejection is caught and the call goes on to return
awaitRejectsSwallowed(message) == [pc |-> "returned", error |-> Undefined]

\* lines 10, 13, 16: an await that rejects outside any try block; the call
\* throws the same error
awaitRejects(message) == [pc |-> "thrown", error |-> message]

InitAnalyze ==
    /\ an_pc = "goto"
    /\ cap_promise = [state |-> "pending"]
    /\ cap_observer = "none"
    /\ cap_timer = "none"
    /\ cap_deliveries = 0
    /\ an_return = Unset
    /\ an_error = Undefined
    /\ an_rejected = [at |-> "none", message |-> "none"]
    /\ an_ran = {}
    /\ an_network = <<>>
    /\ ScoreParked
    /\ LoadParked
    /\ ThrottleParked
    /\ MobileParked

\* the conditions the session's traffic is subject to: those last sent by
\* Network.emulateNetworkConditions, none when no call has throttled it
ConditionsInForce == IF tw_pc = "off" THEN Unconstrained ELSE network

\* a navigation that waits until no testWithThrottling call is under way
AnalyzeGotoSerialised ==
    /\ an_pc = "goto"
    /\ tw_pc \in {"off", "ready", "returned", "thrown"}
    /\ an_pc' = "waitForLoadState"
    /\ an_network' = Append(an_network, ConditionsInForce)
    /\ UNCHANGED <<cap_promise, cap_observer, cap_timer, cap_deliveries,
                   an_return, an_error, an_rejected, an_ran, scoreVars,
                   loadVars, throttleVars, mobileVars>>

\* line 10: the navigation succeeds
AnalyzeGoto ==
    /\ an_pc = "goto"
    /\ an_pc' = "waitForLoadState"
    /\ an_network' = Append(an_network, ConditionsInForce)
    /\ UNCHANGED <<cap_promise, cap_observer, cap_timer, cap_deliveries,
                   an_return, an_error, an_rejected, an_ran, scoreVars,
                   loadVars, throttleVars, mobileVars>>

\* line 13: the network is idle
AnalyzeWaitForLoadState ==
    /\ an_pc = "waitForLoadState"
    /\ an_pc' = "evaluate"
    /\ UNCHANGED <<an_network, cap_promise, cap_observer, cap_timer, cap_deliveries,
                   an_return, an_error, an_rejected, an_ran, scoreVars,
                   loadVars, throttleVars, mobileVars>>

\* lines 16-19, 83-88, 100: the page runs the function given to evaluate: the
\* promise is made, the observer observes, the timeout is set
CaptureStarts ==
    /\ an_pc = "evaluate"
    /\ cap_observer' = "observing"
    /\ cap_timer' = "armed"
    /\ an_ran' = an_ran \cup {"capture"}
    /\ an_pc' = "capturing"
    /\ an_network' = Append(an_network, ConditionsInForce)
    /\ UNCHANGED <<cap_promise, cap_deliveries, an_return, an_error,
                   an_rejected, scoreVars, loadVars, throttleVars, mobileVars>>

\* lines 19-81: the browser calls the observer with a list of entries; the
\* callback resolves, also after the call has returned (the observer stays
\* connected)
ObserverDelivers(entries, resources, memory) ==
    /\ cap_observer = "observing"
    /\ cap_deliveries < MaxDeliveries
    /\ cap_promise' =
           resolve(cap_promise, observerCallback(entries, resources, memory))
    /\ cap_deliveries' = cap_deliveries + 1
    /\ UNCHANGED <<an_network, an_pc, cap_observer, cap_timer, an_return, an_error,
                   an_rejected, an_ran, scoreVars, loadVars, throttleVars, mobileVars>>

\* a timeout handler that disconnects the observer and resolves nothing
TimerFiresWithoutResolve ==
    /\ cap_timer = "armed"
    /\ cap_timer' = "fired"
    /\ cap_observer' = "disconnected"
    /\ UNCHANGED <<an_network, an_pc, cap_promise, cap_deliveries, an_return, an_error,
                   an_rejected, an_ran, scoreVars, loadVars, throttleVars, mobileVars>>

\* lines 88-100: the timeout fires, also after the observer has resolved
\* (it is never cleared)
TimerFires ==
    /\ cap_timer = "armed"
    /\ cap_timer' = "fired"
    /\ cap_observer' = "disconnected"
    /\ cap_promise' = resolve(cap_promise, FallbackMetrics)
    /\ UNCHANGED <<an_network, an_pc, cap_deliveries, an_return, an_error, an_rejected,
                   an_ran, scoreVars, loadVars, throttleVars, mobileVars>>

\* lines 16, 104-113: evaluate returns the value of the promise; the scores
\* and the recommendations are computed and the analysis is returned
EvaluateReturns ==
    /\ an_pc = "capturing"
    /\ cap_promise.state = "fulfilled"
    /\ an_return' = AnalysisOf(Url, cap_promise.value)
    /\ an_ran' = an_ran \cup {"score", "recommend"}
    /\ an_pc' = "returned"
    /\ UNCHANGED <<an_network, cap_promise, cap_observer, cap_timer, cap_deliveries,
                   an_error, an_rejected, scoreVars, loadVars, throttleVars, mobileVars>>

\* goto, waitForLoadState or evaluate rejects
AnalyzeRejects(message) ==
    /\ an_pc \in {"goto", "waitForLoadState", "capturing"}
    /\ an_rejected' = [at |-> an_pc, message |-> message]
    /\ an_pc' = awaitRejects(message).pc
    /\ an_error' = awaitRejects(message).error
    /\ UNCHANGED <<an_network, cap_promise, cap_observer, cap_timer, cap_deliveries,
                   an_return, an_ran, scoreVars, loadVars, throttleVars, mobileVars>>

NextAnalyze ==
    \/ AnalyzeGoto
    \/ AnalyzeWaitForLoadState
    \/ CaptureStarts
    \/ \E es \in EntryLists, rs \in ResourceLists, mem \in MemorySamples :
           ObserverDelivers(es, rs, mem)
    \/ TimerFires
    \/ EvaluateReturns
    \/ \E e \in ErrorMessages : AnalyzeRejects(e)

SpecAnalyze == InitAnalyze /\ [][NextAnalyze]_vars

\* the page's timer runs and evaluate hands a settled promise's value back
SpecAnalyzeFair ==
    SpecAnalyze /\ WF_vars(TimerFires) /\ WF_vars(EvaluateReturns)

(***************************************************************************)
(* The two entry points that observe one page load: a test calls either    *)
(* analyzePagePerformance or testWithThrottling.                           *)
(***************************************************************************)
InitEntryPoints == InitAnalyze \/ InitThrottle
NextEntryPoints == NextAnalyze \/ NextThrottle
SpecEntryPoints == InitEntryPoints /\ [][NextEntryPoints]_vars

(***************************************************************************)
(* A testWithThrottling call and a plain analyzePagePerformance call under *)
(* way on one session: nothing in the class orders their steps.  The       *)
(* observer of either call is given the one list OverlapEntries.           *)
(***************************************************************************)
OverlapEntries == <<NavigationEntry(3700)>>

InitOverlap ==
    /\ an_pc = "goto"
    /\ cap_promise = [state |-> "pending"]
    /\ cap_observer = "none"
    /\ cap_timer = "none"
    /\ cap_deliveries = 0
    /\ an_return = Unset
    /\ an_error = Undefined
    /\ an_rejected = [at |-> "none", message |-> "none"]
    /\ an_ran = {}
    /\ an_network = <<>>
    /\ tw_pc = "ready"
    /\ network = Unconstrained
    /\ tw_conditions = Undefined
    /\ tw_metrics = Unset
    /\ tw_return = Unset
    /\ tw_error = Undefined
    /\ tw_calls = 0
    /\ tw_applied = FALSE
    /\ tw_before = network
    /\ tw_failedAt = "none"
    /\ ScoreParked
    /\ LoadParked
    /\ MobileParked

NextOverlap ==
    \/ AnalyzeGoto
    \/ AnalyzeWaitForLoadState
    \/ CaptureStarts
    \/ ObserverDelivers(OverlapEntries, <<>>, Null)
    \/ TimerFires
    \/ EvaluateReturns
    \/ \E e \in ErrorMessages : AnalyzeRejects(e)
    \/ \E c \in ConditionsSamples : CallThrottling(c)
    \/ NewCDPSession
    \/ NetworkEnable
    \/ ApplyConditions
    \/ Goto
    \/ WaitForLoadState
    \/ CaptureObserved(OverlapEntries, <<>>, Null)
    \/ CaptureTimedOut
    \/ ResetAndReturn
    \/ \E e \in ErrorMessages : ThrottleThrows(e)

SpecOverlap == InitOverlap /\ [][NextOverlap]_vars

(***************************************************************************)
(* testMobilePerformance, with analyzeTouchTargets and                     *)
(* testScrollPerformance.  The analysis runs as the testWithThrottling     *)
(* call above; its observer is given the one list OverlapEntries.          *)
(***************************************************************************)
MaxTargets == 2

\* line 191
mobileViewport == [width |-> 375, height |-> 667]
\* lines 192-194
mobileUserAgent ==
    "Mozilla/5.0 (iPhone; CPU iPhone OS 14_0 like Mac OS X) AppleWebKit/605.1.15"
\* lines 197-201: (1.5 * 1024 * 1024) / 8, (750 * 1024) / 8, 150
mobileConditions ==
    [downloadThroughput |-> (3 * 512 * 1024) \div 8,
     uploadThroughput |-> (750 * 1024) \div 8,
     latency |-> 150]

\* lines 320-325: `Element ${index}: ${rect.width}x${rect.height}` for each
\* element narrower or shorter than 44 px
smallTargetsOf(elements) ==
    LET entry(k) ==
            IF elements[k].width < 44 \/ elements[k].height < 44
            THEN "Element " \o ToString(k - 1) \o ": "
                     \o ToString(elements[k].width) \o "x"
                     \o ToString(elements[k].height)
            ELSE ""
    IN  SelectSeq([k \in 1 .. Len(elements) |-> entry(k)],
                  LAMBDA x : x # "")

\* lines 312-334; 0 / 0 is NaN
analyzeTouchTargets(elements) ==
    LET smallTargets == smallTargetsOf(elements)
        totalTargets == Len(elements)
    IN  [totalTargets |-> totalTargets,
         smallTargets |-> Len(smallTargets),
         smallTargetDetails |-> smallTargets,
         compliance |->
             Quot((totalTargets - Len(smallTargets)) * 100, totalTargets)]

\* the bounding boxes of the page's buttons, links and form controls
TargetSides == {43, 44, 45}
TargetLists ==
    SeqsUpTo({[width |-> w, height |-> h] : w \in TargetSides,
                                            h \in TargetSides}, MaxTargets)
\* endTime - startTime of the scroll test
ScrollDurations == {0, 350}

InitMobile ==
    /\ mb_pc = "setViewportSize"
    /\ viewport = Unset
    /\ userAgent = Undefined
    /\ mb_touch = Unset
    /\ mb_return = Unset
    /\ mb_error = Undefined
    /\ tw_pc = "ready"
    /\ network = Unconstrained
    /\ tw_conditions = Undefined
    /\ tw_metrics = Unset
    /\ tw_return = Unset
    /\ tw_error = Undefined
    /\ tw_calls = 0
    /\ tw_applied = FALSE
    /\ tw_before = network
    /\ tw_failedAt = "none"
    /\ ScoreParked
    /\ LoadParked
    /\ AnalyzeParked

\* line 191
SetViewportSize ==
    /\ mb_pc = "setViewportSize"
    /\ viewport' = mobileViewport
    /\ mb_pc' = "setUserAgent"
    /\ UNCHANGED <<userAgent, mb_touch, mb_return, mb_error, scoreVars,
                   loadVars, throttleVars, analyzeVars>>

\* lines 192-194
SetUserAgent ==
    /\ mb_pc = "setUserAgent"
    /\ userAgent' = mobileUserAgent
    /\ mb_pc' = "testWithThrottling"
    /\ UNCHANGED <<viewport, mb_touch, mb_return, mb_error, scoreVars,
                   loadVars, throttleVars, analyzeVars>>

\* line 203: testWithThrottling is called with the preset
MobileCallsThrottling ==
    /\ mb_pc = "testWithThrottling"
    /\ tw_pc = "ready"
    /\ CallThrottling(mobileConditions)

\* line 203: the call has returned its analysis
MobileAnalysisReturns ==
    /\ mb_pc = "testWithThrottling"
    /\ tw_pc = "returned"
    /\ mb_pc' = "analyzeTouchTargets"
    /\ UNCHANGED <<viewport, userAgent, mb_touch, mb_return, mb_error,
                   scoreVars, loadVars, throttleVars, analyzeVars>>

\* line 203: the call has thrown; nothing catches it
MobileAnalysisThrows ==
    /\ mb_pc = "testWithThrottling"
    /\ tw_pc = "thrown"
    /\ mb_error' = tw_error
    /\ mb_pc' = "thrown"
    /\ UNCHANGED <<viewport, userAgent, mb_touch, mb_return, scoreVars,
                   loadVars, throttleVars, analyzeVars>>

\* line 209
AnalyzeTouchTargets(elements) ==
    /\ mb_pc = "analyzeTouchTargets"
    /\ mb_touch' = analyzeTouchTargets(elements)
    /\ mb_pc' = "testScrollPerformance"
    /\ UNCHANGED <<viewport, userAgent, mb_return, mb_error, scoreVars,
                   loadVars, throttleVars, analyzeVars>>

\* a return that keeps the mobile measurements and drops the analysis
TestScrollPerformanceReplaces(duration) ==
    /\ mb_pc = "testScrollPerformance"
    /\ mb_return' =
           [mobileSpecific |->
               [viewportSize |-> [width |-> 375, height |-> 667],
                touchTargetAnalysis |-> mb_touch,
                scrollPerformance |->
                    [duration |-> duration, smooth |-> TRUE, jankScore |-> 0]]]
    /\ mb_pc' = "returned"
    /\ UNCHANGED <<viewport, userAgent, mb_touch, mb_error, scoreVars,
                   loadVars, throttleVars, analyzeVars>>

\* lines 205-212 and 336-368: the scroll test is over and the record is
\* returned
TestScrollPerformance(duration) ==
    /\ mb_pc = "testScrollPerformance"
    /\ mb_return' =
           ("mobileSpecific" :>
               [viewportSize |-> [width |-> 375, height |-> 667],
                touchTargetAnalysis |-> mb_touch,
                scrollPerformance |->
                    [duration |-> duration, smooth |-> TRUE, jankScore |-> 0]])
           @@ tw_return
    /\ mb_pc' = "returned"
    /\ UNCHANGED <<viewport, userAgent, mb_touch, mb_error, scoreVars,
                   loadVars, throttleVars, analyzeVars>>

\* setViewportSize, setUserAgent or one of the two page.evaluate calls
\* rejects
MobileRejects(message) ==
    /\ mb_pc \in {"setViewportSize", "setUserAgent", "analyzeTouchTargets",
                  "testScrollPerformance"}
    /\ mb_error' = message
    /\ mb_pc' = "thrown"
    /\ UNCHANGED <<viewport, userAgent, mb_touch, mb_return, scoreVars,
                   loadVars, throttleVars, analyzeVars>>

NextMobile ==
    \/ SetViewportSize
    \/ SetUserAgent
    \/ MobileCallsThrottling
    \/ NewCDPSession
    \/ NetworkEnable
    \/ ApplyConditions
    \/ Goto
    \/ WaitForLoadState
    \/ CaptureObserved(OverlapEntries, <<>>, Null)
    \/ CaptureTimedOut
    \/ ResetAndReturn
    \/ \E e \in ErrorMessages : ThrottleThrows(e)
    \/ MobileAnalysisReturns
    \/ MobileAnalysisThrows
    \/ \E elements \in TargetLists : AnalyzeTouchTargets(elements)
    \/ \E d \in ScrollDurations : TestScrollPerformance(d)
    \/ \E e \in ErrorMessages : MobileRejects(e)

SpecMobile == InitMobile /\ [][NextMobile]_vars

(***************************************************************************)
(* Claims about the score calculator (under SpecScore).                    *)
(***************************************************************************)
Scored == sc_pc \in {"scored", "returned"}

\* the sub-scores of the metrics that were observed: a web vital is observed
\* when its field is present; the resource count is part of every snapshot
ObservedSubScores ==
    (IF Has(sc_metrics.webVitals, "firstContentfulPaint")
     THEN <<sc_scores.firstContentfulPaint>> ELSE <<>>)
    \o (IF Has(sc_metrics.webVitals, "largestContentfulPaint")
        THEN <<sc_scores.largestContentfulPaint>> ELSE <<>>)
    \o (IF Has(sc_metrics.webVitals, "loadComplete")
        THEN <<sc_scores.loadTime>> ELSE <<>>)
    \o <<sc_scores.resourceEfficiency>>

\* C6: scores.overall lies in [0,100] and is the arithmetic mean of exactly
\* the sub-scores whose source metric was observed: every observed metric's
\* sub-score is in the mean, no unobserved metric's is.
C6_OverallIsMeanOfObserved ==
    Scored =>
        /\ QGe(sc_scores.overall, 0)
        /\ QLe(sc_scores.overall, 100)
        /\ QEq(sc_scores.overall, SumSeq(ObservedSubScores),
               Len(ObservedSubScores))

\* C7: for two snapshots that differ only in their observed FCP time (any
\* time >= 0), the smaller time has an FCP score at least as large.
C7_FcpScoreMonotone ==
    (Scored /\ Has(sc_metrics.webVitals, "firstContentfulPaint")) =>
        \A t \in FcpTimes :
            t <= sc_metrics.webVitals["firstContentfulPaint"] =>
                calculatePerformanceScores(
                    [sc_metrics EXCEPT !.webVitals["firstContentfulPaint"] = t]
                ).firstContentfulPaint >= sc_scores.firstContentfulPaint

\* the threshold table of the score calculator
TableFCP(t) == IF t <= 1800 THEN 100 ELSE IF t <= 3000 THEN 75
               ELSE IF t <= 4200 THEN 50 ELSE 25
TableLCP(t) == IF t <= 2500 THEN 100 ELSE IF t <= 4000 THEN 75 ELSE 25
TableLoad(t) == IF t <= 2000 THEN 100 ELSE IF t <= 4000 THEN 75
                ELSE IF t <= 6000 THEN 50 ELSE 25

\* C8: every observed FCP, LCP and load-complete time >= 0 gets exactly the
\* sub-score of the threshold table, a boundary value the higher band.
C8_SubScoresFollowTable ==
    Scored =>
        LET w == sc_metrics.webVitals
        IN  /\ Has(w, "firstContentfulPaint") =>
                sc_scores.firstContentfulPaint
                    = TableFCP(w["firstContentfulPaint"])
            /\ Has(w, "largestContentfulPaint") =>
                sc_scores.largestContentfulPaint
                    = TableLCP(w["largestContentfulPaint"])
            /\ Has(w, "loadComplete") =>
                sc_scores.loadTime = TableLoad(w["loadComplete"])

\* C9: resourceEfficiency is 100 for a count <= 50, 75 for 51..100, 50 for
\* 101..150 and 25 above 150.
C9_ResourceEfficiencyBands ==
    Scored =>
        LET n == sc_metrics.resources.totalResources
            e == sc_scores.resourceEfficiency
        IN  /\ n <= 50 => e = 100
            /\ n \in 51 .. 100 => e = 75
            /\ n \in 101 .. 150 => e = 50
            /\ n > 150 => e = 25

\* a count of exactly 50 has been scored 100
C9_Witness ==
    /\ Scored
    /\ sc_metrics.resources.totalResources = 50
    /\ sc_scores.resourceEfficiency = 100

\* C10: when no web vital was observed at all, as in the snapshot of the
\* fallback timeout, scores.overall is 0.
C10_NothingObservedOverallZero ==
    (Scored /\ DOMAIN sc_metrics.webVitals = {}) =>
        sc_scores.overall = Num(0)

(***************************************************************************)
(* Claims about loadTest (under SpecLoad).                                 *)
(***************************************************************************)
Issued == options["concurrent"] * options["iterations"]
LoadEnded == lt_pc \in {"done", "thrown"}

\* C1: whatever slots succeed or fail, the returned summary.totalRequests
\* equals concurrent * iterations.
C1_TotalRequestsIsProduct ==
    lt_pc = "done" => lt_return.summary.totalRequests = Issued

\* C3: with at least one successful slot, summary.successRate equals
\* 100 * successes / (concurrent * iterations), so a run in which a slot
\* failed reports a rate strictly below 100.
C3_SuccessRateOverIssued ==
    (lt_pc = "done" /\ succeeded >= 1) =>
        /\ QEq(lt_return.summary.successRate, 100 * succeeded, Issued)
        /\ failed >= 1 => ~QGe(lt_return.summary.successRate, 100)

\* C4: a slot's failure aborts neither its batch nor the run: loadTest never
\* throws, a batch is left only with every slot settled, the run can always
\* go on until it returns, and when it returns every slot of every batch was
\* issued and has settled and each failure is listed in errors.
C4_SlotFailureNeverAborts ==
    /\ lt_pc # "thrown"
    /\ lt_pc \in {"loop", "delay", "done"} =>
           \A i \in DOMAIN slots : slots[i].state = "fulfilled"
    /\ lt_pc # "done" => ENABLED NextLoad
    /\ lt_pc = "done" =>
           /\ launched = Issued
           /\ succeeded + failed = Issued
           /\ Len(lt_return.errors) = failed

\* a run of two batches of two slots has returned with failed and
\* successful slots in it
C4_Witness ==
    /\ lt_pc = "done"
    /\ options["concurrent"] = 2
    /\ options["iterations"] = 2
    /\ failed >= 1
    /\ succeeded >= 1
    /\ Len(lt_return.errors) = failed

\* C5: if every slot of every batch throws (at least one slot), loadTest
\* returns normally with successRate, averageResponseTime, minResponseTime
\* and maxResponseTime all 0 and finite, and recommendations is exactly the
\* 'All requests failed' message.
C5_AllSlotsFail ==
    (LoadEnded /\ Issued >= 1 /\ failed = Issued) =>
        /\ lt_pc = "done"
        /\ lt_return.summary.successRate = Num(0)
        /\ lt_return.summary.averageResponseTime = Num(0)
        /\ lt_return.summary.minResponseTime = 0
        /\ lt_return.summary.maxResponseTime = 0
        /\ lt_return.recommendations = <<RecAllFailed>>

\* a run of two batches has returned after every one of its slots threw
C5_Witness ==
    /\ lt_pc = "done"
    /\ options["iterations"] = 2
    /\ options["concurrent"] >= 1
    /\ failed = Issued
    /\ lt_return.summary.successRate = Num(0)

(***************************************************************************)
(* Claims about testWithThrottling (under SpecThrottle).                   *)
(***************************************************************************)
\* C2: once a call of testWithThrottling has applied its conditions, the
\* session is unconstrained when the call returns or throws, also when the
\* analysis pass (navigation, idle wait or capture) raises.
C2_RestoredOnEveryExit ==
    (tw_pc \in {"returned", "thrown"} /\ tw_applied) =>
        network = Unconstrained

(***************************************************************************)
(* Claims about analyzePagePerformance (under SpecAnalyze and its fair     *)
(* version).                                                               *)
(***************************************************************************)
\* C11: if navigation and the idle wait succeed and no timing entry is ever
\* delivered to the observer, analyzePagePerformance still completes (a
\* started capture always ends, the timeout resolving it) and the metrics
\* returned have empty webVitals, totalResources = 0, totalSize = 0, empty
\* resourceTypes and memory = null.
C11_FallbackCompletes ==
    /\ [](an_pc = "capturing" => <>(an_pc \in {"returned", "thrown"}))
    /\ []((an_pc = "returned" /\ cap_deliveries = 0) =>
            /\ DOMAIN an_return.metrics.webVitals = {}
            /\ an_return.metrics.resources.totalResources = 0
            /\ an_return.metrics.resources.totalSize = 0
            /\ DOMAIN an_return.metrics.resources.resourceTypes = {}
            /\ IsNull(an_return.metrics.memory))

\* the call has returned although the observer was never called
C11_Witness ==
    /\ an_pc = "returned"
    /\ cap_deliveries = 0
    /\ cap_timer = "fired"
    /\ DOMAIN an_return.metrics.webVitals = {}

\* C12: if navigation fails, analyzePagePerformance throws the navigation
\* error to its caller and produces no PerformanceAnalysis: no capture,
\* scoring or recommendation step has run; testWithThrottling too ends by
\* throwing that error and returns no record.
C12_NavigationFailureThrown ==
    /\ an_rejected.at = "goto" =>
           /\ an_pc = "thrown"
           /\ an_error = an_rejected.message
           /\ an_ran = {}
           /\ cap_observer = "none"
           /\ cap_timer = "none"
           /\ an_return = Unset
    /\ tw_failedAt = "goto" =>
           /\ tw_pc = "thrown"
           /\ tw_error \in ErrorMessages
           /\ tw_metrics = Unset
           /\ tw_return = Unset

\* the navigation of a plain analysis has failed and the caller holds the
\* error
C12_Witness ==
    /\ an_rejected.at = "goto"
    /\ an_pc = "thrown"
    /\ an_error = "net::ERR_CONNECTION_REFUSED"

\* C19: before the 5-second ceiling expires, the capture does not resolve
\* unless a navigation timing entry has been observed: a delivery that holds
\* only paint entries does not complete it.
C19_ResolvesOnNavigationOrCeiling ==
    (cap_promise.state = "fulfilled" /\ cap_timer = "armed") =>
        Has(cap_promise.value.webVitals, "loadComplete")

(***************************************************************************)
(* Further claims about testWithThrottling (under SpecThrottle).           *)
(***************************************************************************)
\* C13: if the analysis pass succeeds and the revert to unconstrained
\* conditions then fails, the failure is not thrown: the caller still
\* receives the analysis record.
C13_RevertFailureNotThrown ==
    tw_failedAt = "reset" => tw_pc = "returned"

\* C14: after a call whose analysis succeeds, the network conditions of the
\* session equal those before the call, whether the session was
\* unconstrained or already constrained by an earlier emulation.
C14_RoundTrip ==
    tw_pc = "returned" => network = tw_before


(***************************************************************************)
(* loadTest: batches, slots, error entries and pauses.                     *)
(***************************************************************************)

AllSlotsSettled == \A i \in DOMAIN slots : slots[i].state # "pending"
SameLoadComplete ==
    \A j, k \in 1 .. Len(results) :
        loadCompleteOrZero(results[j]) = loadCompleteOrZero(results[k])

\* C15: when every one of the c x n slots succeeds with the same
\* load-complete time t, the summary has totalRequests = successfulRequests
\* = c x n, failedRequests = 0, successRate = 100, average = min = max = t,
\* and the errors list is empty.
C15_AllSucceedSameTime ==
    (lt_pc = "done" /\ Issued >= 1 /\ failed = 0 /\ SameLoadComplete) =>
        LET t == loadCompleteOrZero(results[1])
            summary == lt_return.summary
        IN  /\ summary.totalRequests = Issued
            /\ summary.successfulRequests = Issued
            /\ summary.failedRequests = 0
            /\ QEq(summary.successRate, 100, 1)
            /\ QEq(summary.averageResponseTime, t, 1)
            /\ summary.minResponseTime = t
            /\ summary.maxResponseTime = t
            /\ lt_return.errors = <<>>

C15_Witness ==
    /\ lt_pc = "done"
    /\ options["concurrent"] = 2
    /\ options["iterations"] = 2
    /\ succeeded = 4
    /\ SameLoadComplete
    /\ lt_return.summary.totalRequests = 4
    /\ lt_return.summary.minResponseTime = 1000
    /\ lt_return.summary.maxResponseTime = 1000

\* C16: no slot of the next batch is launched before every slot of the
\* current batch has settled, and a batch is over (its results pushed, the
\* loop moved on) only when all its `concurrent` slots have settled, in
\* whatever order they finished.
C16_BatchesSequential ==
    [][/\ launched' # launched =>
              (AllSlotsSettled /\ succeeded + failed = launched)
       /\ (lt_pc = "await" /\ lt_pc' # "await") =>
              /\ AllSlotsSettled
              /\ DOMAIN slots = 0 .. options["concurrent"] - 1
              /\ succeeded + failed = (batch + 1) * options["concurrent"]]_vars

C16_Witness ==
    /\ lt_pc = "await"
    /\ batch = 1
    /\ options["concurrent"] = 2
    /\ launched = 4
    /\ slots[0].state = "pending"
    /\ slots[1].state = "fulfilled"
    /\ succeeded + failed = 3

\* C17: a slot (batch b, index i) whose analysis throws appends exactly one
\* entry "Batch b, User i: message" to errors and adds nothing to results;
\* a slot that succeeds appends no entry; so errors.length and
\* summary.failedRequests are the number of failed slots.
C17_OneEntryPerFailedSlot ==
    /\ [](Len(errors) = failed)
    /\ [](lt_pc \in {"loop", "delay", "done"} => Len(results) = succeeded)
    /\ [](lt_pc = "done" =>
            /\ lt_return.summary.failedRequests = failed
            /\ Len(lt_return.errors) = failed)
    /\ [][/\ failed' = failed + 1 =>
                 \E i \in DOMAIN slots, message \in ErrorMessages :
                     /\ slots[i].state = "pending"
                     /\ slots'[i].state # "pending"
                     /\ errors' = Append(errors,
                            "Batch " \o ToString(batch) \o ", User "
                                \o ToString(i) \o ": " \o message)
                     /\ results' = results
          /\ succeeded' = succeeded + 1 => errors' = errors]_vars

C17_Witness ==
    /\ lt_pc = "done"
    /\ succeeded >= 1
    /\ errors = <<"Batch 1, User 0: Timeout 30000ms exceeded">>
    /\ lt_return.summary.failedRequests = 1

\* C18: with a positive delayBetweenBatches the loop pauses once after each
\* batch but the last (iterations - 1 pauses in all), each pause after all
\* slots of its batch have settled and before the next batch is launched;
\* without the option it never pauses.
C18_PausesBetweenBatches ==
    /\ Truthy(options, "delayBetweenBatches") =>
          /\ lt_pc = "await" => pauses = batch
          /\ lt_pc = "delay" =>
                /\ pauses = batch + 1
                /\ batch < options["iterations"] - 1
                /\ AllSlotsSettled
                /\ launched = (batch + 1) * options["concurrent"]
          /\ (lt_pc = "done" /\ options["iterations"] >= 1) =>
                pauses = options["iterations"] - 1
    /\ ~Has(options, "delayBetweenBatches") => pauses = 0

C18_Witness ==
    /\ lt_pc = "done"
    /\ Truthy(options, "delayBetweenBatches")
    /\ options["iterations"] = 3
    /\ pauses = 2

\* C20: with at least one successful slot, the 'High error rate'
\* recommendation is emitted exactly when the failed slots exceed 10% of
\* the attempted requests: failures > 0.1 x (concurrent x iterations).
C20_StabilityOverAttempted ==
    (lt_pc = "done" /\ succeeded >= 1) =>
        ((\E j \in DOMAIN lt_return.recommendations :
              lt_return.recommendations[j] = RecStability)
         <=> 10 * failed > Issued)

(***************************************************************************)
(* generateRecommendations: which messages, and in which order.            *)
(***************************************************************************)
Recommends(message) == \E j \in DOMAIN sc_recs : sc_recs[j] = message
RecRank(message) ==
    IF message = RecFCP THEN 1
    ELSE IF message = RecLCP THEN 2
    ELSE IF message = RecSize THEN 4
    ELSE IF message = RecTTFB THEN 5
    ELSE 3

\* C21: generateRecommendations returns exactly the messages whose
\* condition holds (FCP score < 75, LCP score < 75, more than 100
\* resources, more than 2 MiB transferred, TTFB above 600 ms), each at most
\* once and in that order; an absent TTFB gives no TTFB message.
C21_ExactlyTheFiringMessages ==
    sc_pc = "returned" =>
        LET count == sc_metrics.resources.totalResources
        IN  /\ Recommends(RecFCP) <=> sc_scores.firstContentfulPaint < 75
            /\ Recommends(RecLCP) <=> sc_scores.largestContentfulPaint < 75
            /\ Recommends("Reduce number of resources (currently "
                              \o ToString(count) \o ")") <=> count > 100
            /\ Recommends(RecSize) <=>
                   sc_metrics.resources.totalSize > 2 * 1024 * 1024
            /\ Recommends(RecTTFB) <=>
                   /\ Has(sc_metrics.webVitals, "firstByte")
                   /\ sc_metrics.webVitals["firstByte"] > 600
            /\ \A j \in DOMAIN sc_recs :
                   \/ sc_recs[j] \in {RecFCP, RecLCP, RecSize, RecTTFB}
                   \/ sc_recs[j] = "Reduce number of resources (currently "
                                       \o ToString(count) \o ")"
            /\ \A j, k \in DOMAIN sc_recs :
                   j < k => RecRank(sc_recs[j]) < RecRank(sc_recs[k])

C21_Witness ==
    /\ sc_pc = "returned"
    /\ sc_metrics.resources.totalSize = 2 * 1024 * 1024 + 1
    /\ sc_recs = <<RecFCP, RecLCP, "Reduce number of resources (currently 101)",
                   RecSize, RecTTFB>>

\* the load-complete time of each successful result, 0 where it is missing
SampleTimes ==
    [j \in 1 .. Len(results) |->
        IF Has(results[j].metrics.webVitals, "loadComplete")
        THEN results[j].metrics.webVitals["loadComplete"] ELSE 0]

\* C22: with at least one successful slot, averageResponseTime,
\* minResponseTime and maxResponseTime are the mean, minimum and maximum of
\* the successful results' load-complete times only, a missing time counted
\* as 0 (so one result without it makes the minimum 0).
C22_AggregatesOverSuccesses ==
    (lt_pc = "done" /\ succeeded >= 1) =>
        LET summary == lt_return.summary
        IN  /\ Len(SampleTimes) = succeeded
            /\ QEq(summary.averageResponseTime, SumSeq(SampleTimes), succeeded)
            /\ \E j \in DOMAIN SampleTimes :
                   summary.minResponseTime = SampleTimes[j]
            /\ \A j \in DOMAIN SampleTimes :
                   summary.minResponseTime <= SampleTimes[j]
            /\ \E j \in DOMAIN SampleTimes :
                   summary.maxResponseTime = SampleTimes[j]
            /\ \A j \in DOMAIN SampleTimes :
                   summary.maxResponseTime >= SampleTimes[j]
            /\ (\E j \in DOMAIN results :
                   ~Has(results[j].metrics.webVitals, "loadComplete"))
                   => summary.minResponseTime = 0

C22_Witness ==
    /\ lt_pc = "done"
    /\ failed = 1
    /\ succeeded = 2
    /\ \E j \in DOMAIN results :
           ~Has(results[j].metrics.webVitals, "loadComplete")
    /\ lt_return.summary.minResponseTime = 0
    /\ lt_return.summary.maxResponseTime = 6000
    /\ QEq(lt_return.summary.averageResponseTime, 3000, 1)

\* C25: after a loadTest run summary.successfulRequests +
\* summary.failedRequests = concurrent x iterations: every launched slot is
\* counted once, as a successful result or as an error entry.
C25_EverySlotAccounted ==
    lt_pc = "done" =>
        /\ lt_return.summary.successfulRequests
               + lt_return.summary.failedRequests = Issued
        /\ lt_return.summary.successfulRequests = succeeded
        /\ lt_return.summary.failedRequests = failed
        /\ launched = Issued

C25_Witness ==
    /\ lt_pc = "done"
    /\ Issued = 4
    /\ lt_return.summary.successfulRequests = 3
    /\ lt_return.summary.failedRequests = 1

\* C28: loadTest with concurrent = 0 or iterations = 0 issues no analysis
\* and returns a summary of zeros, no errors and the one 'All requests
\* failed' recommendation.
C28_NothingToRun ==
    (options["concurrent"] = 0 \/ options["iterations"] = 0) =>
        /\ launched = 0
        /\ succeeded + failed = 0
        /\ lt_pc = "done" =>
              /\ lt_return.summary.totalRequests = 0
              /\ lt_return.summary.successfulRequests = 0
              /\ lt_return.summary.failedRequests = 0
              /\ QEq(lt_return.summary.successRate, 0, 1)
              /\ QEq(lt_return.summary.averageResponseTime, 0, 1)
              /\ lt_return.summary.minResponseTime = 0
              /\ lt_return.summary.maxResponseTime = 0
              /\ lt_return.errors = <<>>
              /\ lt_return.recommendations =
                     <<"All requests failed - check server capacity and configuration">>

C28_Witness ==
    /\ lt_pc = "done"
    /\ options["concurrent"] = 0
    /\ options["iterations"] = 3
    /\ batch = 3
    /\ lt_return.summary.totalRequests = 0

\* C26: in the errors list every entry of batch b precedes every entry of
\* batch b+1, and within a batch the entries are in the order in which the
\* slots failed, which need not be the order of their indexes.
C26_ErrorsInFailureOrder ==
    /\ Len(errors) = Len(failedSlots)
    /\ \A j \in DOMAIN errors :
           \E message \in ErrorMessages :
               errors[j] = "Batch " \o ToString(failedSlots[j].batch)
                               \o ", User " \o ToString(failedSlots[j].slot)
                               \o ": " \o message
    /\ \A j, k \in DOMAIN failedSlots :
           j < k => failedSlots[j].batch <= failedSlots[k].batch
    /\ lt_pc = "done" => lt_return.errors = errors

C26_Witness ==
    /\ lt_pc = "done"
    /\ lt_return.errors =
           <<"Batch 0, User 1: Timeout 30000ms exceeded",
             "Batch 0, User 0: net::ERR_CONNECTION_REFUSED",
             "Batch 1, User 0: Timeout 30000ms exceeded">>

(***************************************************************************)
(* analyzePagePerformance: unobserved vitals, and the single resolution.   *)
(***************************************************************************)
AnalysisRecommends(message) ==
    \E j \in DOMAIN an_return.recommendations :
        an_return.recommendations[j] = message

\* C27: a web vital that was not observed gets sub-score 0 and, for FCP and
\* LCP, its recommendation; the analysis of the fallback snapshot has
\* exactly the FCP and LCP recommendations and resourceEfficiency 100.
C27_UnobservedVitals ==
    an_pc = "returned" =>
        LET webVitals == an_return.metrics.webVitals
            scores == an_return.scores
        IN  /\ ~Has(webVitals, "firstContentfulPaint") =>
                  /\ scores.firstContentfulPaint = 0
                  /\ AnalysisRecommends(RecFCP)
            /\ ~Has(webVitals, "largestContentfulPaint") =>
                  /\ scores.largestContentfulPaint = 0
                  /\ AnalysisRecommends(RecLCP)
            /\ ~Has(webVitals, "loadComplete") => scores.loadTime = 0
            /\ (cap_deliveries = 0 /\ cap_timer = "fired") =>
                  /\ an_return.recommendations = <<RecFCP, RecLCP>>
                  /\ scores.resourceEfficiency = 100

C27_Witness ==
    /\ an_pc = "returned"
    /\ cap_deliveries = 0
    /\ an_return.scores.firstContentfulPaint = 0
    /\ an_return.scores.resourceEfficiency = 100
    /\ an_return.recommendations = <<RecFCP, RecLCP>>

\* C29: the capture resolves once: the snapshot is that of the first of the
\* observer callback and the timeout to fire, and a later firing of the
\* other, or a further delivery, leaves the snapshot and the analysis
\* returned from it as they are.
C29_ResolvesOnce ==
    /\ [][/\ cap_promise.state = "fulfilled" => cap_promise' = cap_promise
          /\ (cap_promise.state = "pending" /\ cap_timer' # cap_timer
                  /\ cap_timer = "armed") =>
                 /\ cap_promise'.state = "fulfilled"
                 /\ DOMAIN cap_promise'.value.webVitals = {}
          /\ (cap_promise.state = "pending"
                  /\ cap_deliveries' = cap_deliveries + 1) =>
                 cap_promise'.state = "fulfilled"]_vars
    /\ [](an_pc = "returned" => an_return.metrics = cap_promise.value)

C29_Witness ==
    /\ an_pc = "returned"
    /\ cap_deliveries = 2
    /\ cap_timer = "fired"
    /\ Has(an_return.metrics.webVitals, "loadComplete")
    /\ an_return.metrics = cap_promise.value

\* C23: access to the session's network conditions is not serialised: a
\* plain analysis is never made to wait for a testWithThrottling call, nor
\* the call for the analysis, and the analysis navigates and measures under
\* whatever conditions the session has at that moment, the throttled ones
\* included.
C23_ConditionsNotSerialised ==
    /\ [](an_pc = "goto" => ENABLED AnalyzeGoto)
    /\ [](an_pc = "evaluate" => ENABLED CaptureStarts)
    /\ [](tw_pc = "emulate" => ENABLED ApplyConditions)
    /\ [][(Len(an_network') = Len(an_network) + 1) =>
              an_network'[Len(an_network')] = network]_vars

C23_Witness ==
    /\ an_pc = "returned"
    /\ tw_pc = "reset"
    /\ Len(an_network) = 2
    /\ an_network[1] = network
    /\ an_network[2] = network
    /\ network.latency = 400
    /\ Has(an_return.metrics.webVitals, "loadComplete")
    /\ an_return.metrics.webVitals["loadComplete"] = 2500

(***************************************************************************)
(* testMobilePerformance.                                                  *)
(***************************************************************************)
MobilePreset ==
    [downloadThroughput |-> 196608, uploadThroughput |-> 96000,
     latency |-> 150]

C30_ComplianceWellDefined ==
    mb_touch # Unset =>
        /\ mb_touch.smallTargets <= mb_touch.totalTargets
        /\ Len(mb_touch.smallTargetDetails) = mb_touch.smallTargets
        /\ IsFinite(mb_touch.compliance)
        /\ QGe(mb_touch.compliance, 0)
        /\ QLe(mb_touch.compliance, 100)
        /\ mb_touch.totalTargets > 0 =>
               QEq(mb_touch.compliance,
                   100 * (mb_touch.totalTargets - mb_touch.smallTargets),
                   mb_touch.totalTargets)

====
